---- MODULE Spec2Model ----
(***************************************************************************)
(* Model of github_metrics.py: the paginated fetchers get_commits and      *)
(* get_prs_between, process_data, the refetch branch of __main__ and the   *)
(* two extend functions, over the two stored files commits_data_all.csv    *)
(* and prs_data_all.csv.                                                    *)
(*                                                                         *)
(* Time is counted in days.  A DataFrame is the sequence of its rows; in   *)
(* every state the program reaches, a DataFrame without rows is the        *)
(* column-less pd.DataFrame([]) (no header-only file is ever written).     *)
(***************************************************************************)
EXTENDS Integers, Sequences, FiniteSets, TLC

\* ---------------------------------------------------------------- bounds
MaxRuns == 2          \* process invocations in one behaviour
MaxMonths == 1        \* largest --months / --extend_months value
MaxFailures == 1      \* non-200 responses the remote gives in one behaviour
Now == 100            \* datetime.utcnow() of the runs, in days
PerPage == 2          \* items on one listing page (per_page)
MergeLen == 2         \* longest dataset and batch merge is checked over
\* largest --extend_months of the runs started side by side
ConcMonths == 2

\* ------------------------------------------------------------- constants
DaysPerMonth == 30

None == "None"        \* a JSON null / Python None in a text field (merged_at, author name)
NaN == "NaN"
Inst == {1, 2}        \* process instances that may run the script
Repos == {"a", "b", "x"}
RepoLists == {<<"a">>, <<"b">>, <<"a", "b">>, <<"b", "a">>, <<"x">>}
Kinds == {"commits", "prs"}

\* ------------------------------------------------------------ the remote
\* Commits of each repository as the listing endpoint orders them (newest
\* first).  Repository b is a fork of a: both hold commit s1.  Repository x
\* has no commits and no pull requests: each of its pages is an empty list.
RemoteCommits ==
  [r \in Repos |->
     IF r = "a"
     THEN << [sha |-> "s0", date |-> 98, name |-> "bob"],
             [sha |-> "s1", date |-> 95, name |-> "ann"],
             [sha |-> "s2", date |-> 70, name |-> None],
             [sha |-> "s3", date |-> 40, name |-> "bob"],
             [sha |-> "s4", date |-> 5,  name |-> "ann"] >>
     ELSE IF r = "b"
     THEN << [sha |-> "s1", date |-> 95, name |-> "ann"],
             [sha |-> "s5", date |-> 60, name |-> "cat"] >>
     ELSE << >>]

\* Closed pull requests of each repository, sorted by created_at descending
\* (sort=created, direction=desc).  Numbers are per repository.  merged_at is
\* the wire text the script never parses.
RemotePRs ==
  [r \in Repos |->
     IF r = "a"
     THEN << [number |-> 5, created_at |-> 98, merged_at |-> "d99", closed_at |-> 99, login |-> "ann"],
             [number |-> 4, created_at |-> 90, merged_at |-> None,  closed_at |-> 91, login |-> "bob"],
             [number |-> 3, created_at |-> 70, merged_at |-> "d72", closed_at |-> 72, login |-> "ann"],
             [number |-> 2, created_at |-> 40, merged_at |-> "d41", closed_at |-> 41, login |-> "bob"],
             [number |-> 1, created_at |-> 8,  merged_at |-> None,  closed_at |-> 9,  login |-> "ann"] >>
     ELSE IF r = "b"
     THEN << [number |-> 2, created_at |-> 96, merged_at |-> "d97", closed_at |-> 97, login |-> "cat"],
             [number |-> 1, created_at |-> 50, merged_at |-> None,  closed_at |-> 52, login |-> "cat"] >>
     ELSE << >>]

\* ------------------------------------------------------- pure operators
Min(a, b) == IF a <= b THEN a ELSE b

Range(s) == {s[i] : i \in 1..Len(s)}

RECURSIVE Flatten(_)
\* pd.concat(list_of_frames, ignore_index=True)
Flatten(dfs) == IF dfs = <<>> THEN <<>> ELSE Head(dfs) \o Flatten(Tail(dfs))

\* one page of a listing: items (page-1)*per_page+1 .. page*per_page
PageOf(items, page) ==
  SubSeq(items, (page - 1) * PerPage + 1, Min(page * PerPage, Len(items)))

\* a key that tells the repositories apart: (repository, pr_number)
KeyOfWithRepo(row, field) ==
  IF field = "sha" THEN row.sha ELSE <<row.repository, row.pr_number>>

\* the key of a row under drop_duplicates(subset=[field])
KeyOf(row, field) == IF field = "sha" THEN row.sha ELSE row.pr_number

\* the column sort_values(by=field) orders by
TimeOf(row, field) == IF field = "date" THEN row.date ELSE row.created_at

RECURSIVE DropFrom(_, _, _)
DropFrom(rows, field, seen) ==
  IF rows = <<>> THEN <<>>
  ELSE IF KeyOf(Head(rows), field) \in seen
       THEN DropFrom(Tail(rows), field, seen)
       ELSE <<Head(rows)>> \o DropFrom(Tail(rows), field, seen \cup {KeyOf(Head(rows), field)})

\* drop_duplicates that drops nothing
drop_duplicates_none(rows, field) == rows

\* DataFrame.drop_duplicates(subset=[field]): the first row of each key stays
drop_duplicates(rows, field) == DropFrom(rows, field, {})

RECURSIVE InsertSorted(_, _, _)
InsertSorted(sorted, row, field) ==
  IF sorted = <<>> THEN <<row>>
  ELSE IF TimeOf(Head(sorted), field) <= TimeOf(row, field)
       THEN <<Head(sorted)>> \o InsertSorted(Tail(sorted), row, field)
       ELSE <<row>> \o sorted

RECURSIVE SortFrom(_, _, _)
SortFrom(rows, field, acc) ==
  IF rows = <<>> THEN acc
  ELSE SortFrom(Tail(rows), field, InsertSorted(acc, Head(rows), field))

\* sort_values that leaves the rows in the order it found them
sort_values_none(rows, field) == rows

\* DataFrame.sort_values(by=field): ascending; rows that tie keep their order
\* (numpy sorts the short arrays of this model by insertion)
sort_values(rows, field) == SortFrom(rows, field, <<>>)

\* merge without its drop_duplicates
merge_keep_all(existing, incoming, key, time) == sort_values(existing \o incoming, time)

\* merge that forgets the stored rows
merge_incoming_only(existing, incoming, key, time) ==
  sort_values(drop_duplicates(incoming, key), time)

\* merge with the fetched rows concatenated in front of the stored ones
merge_incoming_first(existing, incoming, key, time) ==
  sort_values(drop_duplicates(incoming \o existing, key), time)

\* pd.concat([existing, new]).drop_duplicates(subset=[key]).sort_values(by=time)
merge(existing, incoming, key, time) ==
  sort_values(drop_duplicates(existing \o incoming, key), time)

\* the record process_data and extend_all_commits_data build from a commit
CommitRow(c, repo) ==
  [sha |-> c.sha, date |-> c.date,
   author |-> IF c.name = None THEN "Unknown" ELSE c.name,
   repository |-> repo]

\* the record process_data and extend_all_prs_data build from a pull request
PrRow(pr, repo) ==
  [pr_number |-> pr.number, created_at |-> pr.created_at,
   merged_at |-> pr.merged_at, closed_at |-> pr.closed_at,
   author |-> pr.login, repository |-> repo]

CommitFrame(commits, repo) == [i \in 1..Len(commits) |-> CommitRow(commits[i], repo)]
PrFrame(prs, repo) == [i \in 1..Len(prs) |-> PrRow(prs[i], repo)]

\* DataFrame.to_csv(index=False): a missing value is written as an empty field
CsvCell(v) == IF v \in {None, NaN} THEN "" ELSE v
to_csv(rows, kind) ==
  IF kind = "commits" THEN rows
  ELSE [i \in 1..Len(rows) |-> [rows[i] EXCEPT !.merged_at = CsvCell(@)]]

\* pd.read_csv: an empty field is read back as NaN
FrameCell(v) == IF v = "" THEN NaN ELSE v

\* read_csv that takes the first data row for the header and loses it
read_csv_skip_first(file, kind) ==
  IF kind = "commits" THEN Tail(file)
  ELSE [i \in 1..(Len(file) - 1) |-> [file[i + 1] EXCEPT !.merged_at = FrameCell(@)]]

\* pd.read_csv(path, parse_dates=[...])
read_csv(file, kind) ==
  IF kind = "commits" THEN file
  ELSE [i \in 1..Len(file) |-> [file[i] EXCEPT !.merged_at = FrameCell(@)]]

KeyField(kind) == IF kind = "commits" THEN "sha" ELSE "pr_number"
TimeField(kind) == IF kind = "commits" THEN "date" ELSE "created_at"

\* the selection without its repository filter
RepoRowsAll(df, repo) == df

\* existing_df[existing_df["repository"] == repo]
RepoRows(df, repo) == SelectSeq(df, LAMBDA row : row.repository = repo)

\* repo_df[time].min() of a frame with at least one row
MinTime(df, field) ==
  CHOOSE t \in {TimeOf(df[i], field) : i \in 1..Len(df)} :
    \A i \in 1..Len(df) : t <= TimeOf(df[i], field)

\* earliest_date taken over the whole table, not the rows of the repository
earliest_date_all(existing, repo, kind) == MinTime(existing, TimeField(kind))

\* repo_df["date"].min() / repo_df["created_at"].min() in the extend loops
earliest_date(existing, repo, kind) == MinTime(RepoRows(existing, repo), TimeField(kind))

\* the window start with the months taken for days
WindowStartDays(t, months) == t - months

\* earliest_date - datetime.timedelta(days=30 * extend_months)
WindowStart(t, months) == t - DaysPerMonth * months

RECURSIVE ScanPageEndInclusive(_, _, _, _)
\* ScanPage with `created_at > end_date` as the too-new test
ScanPageEndInclusive(data, start_date, end_date, prs) ==
  IF data = <<>> THEN [prs |-> prs, stop |-> FALSE]
  ELSE IF Head(data).created_at > end_date
       THEN ScanPageEndInclusive(Tail(data), start_date, end_date, prs)
       ELSE IF Head(data).created_at < start_date
            THEN [prs |-> prs, stop |-> TRUE]
            ELSE ScanPageEndInclusive(Tail(data), start_date, end_date, Append(prs, Head(data)))

RECURSIVE ScanPageNoStop(_, _, _, _)
\* ScanPage with `continue` where the loop returns on an older item
ScanPageNoStop(data, start_date, end_date, prs) ==
  IF data = <<>> THEN [prs |-> prs, stop |-> FALSE]
  ELSE IF Head(data).created_at >= end_date \/ Head(data).created_at < start_date
       THEN ScanPageNoStop(Tail(data), start_date, end_date, prs)
       ELSE ScanPageNoStop(Tail(data), start_date, end_date, Append(prs, Head(data)))

RECURSIVE ScanPage(_, _, _, _)
\* the for loop of get_prs_between over one page: prs grown, and whether the
\* loop returned on an item older than start_date
ScanPage(data, start_date, end_date, prs) ==
  IF data = <<>> THEN [prs |-> prs, stop |-> FALSE]
  ELSE IF Head(data).created_at >= end_date
       THEN ScanPage(Tail(data), start_date, end_date, prs)
       ELSE IF Head(data).created_at < start_date
            THEN [prs |-> prs, stop |-> TRUE]
            ELSE ScanPage(Tail(data), start_date, end_date, Append(prs, Head(data)))

\* the list replaced by the page instead of grown by it
extend_replace(commits, data) == data

\* commits.extend(data)
extend(commits, data) == commits \o data

\* page += 1
next_page(page) == page + 1

\* a pass that goes straight to the next request
after_page_nosleep(kind) ==
  IF kind = "commits" THEN "get_commits" ELSE "get_prs_between"

\* where a pass of a fetcher that received a non-empty page goes on:
\* time.sleep(1), then the next request
after_page(kind) ==
  IF kind = "commits" THEN "get_commits_sleep" ELSE "get_prs_between_sleep"

\* the commits listing with the since / until query filters applied by the
\* remote; until_date is <<>> when the parameter is not sent.  Whether the
\* remote counts a commit dated exactly `until` is the remote's choice.
ServeCommits(repo, since_date, until_date, inclusive) ==
  SelectSeq(RemoteCommits[repo],
            LAMBDA c : /\ c.date >= since_date
                       /\ \/ until_date = <<>>
                          \/ c.date < until_date[1]
                          \/ inclusive /\ c.date = until_date[1])

\* csv_path with the PR file name in both extend functions
csv_path_prs(kind) == "prs"

\* the file combined_df.to_csv(filename, index=False) of an extend function
\* writes: the csv of the function's own dataset
csv_path(kind) == kind

\* os_path_exists that answers True for a missing file
os_path_exists_always(file) == TRUE

\* os.path.exists(filename)
os_path_exists(file) == file.exists

\* refetch_combine with the last repository's frame in place of the whole list
refetch_combine_last(frames, key, time) ==
  sort_values(drop_duplicates(frames[Len(frames)], key), time)

\* pd.concat(frames, ignore_index=True).drop_duplicates(subset=[key]).sort_values(by=time)
refetch_combine(frames, key, time) ==
  sort_values(drop_duplicates(Flatten(frames), key), time)

\* ----------------------------------------------------------------- state
VARIABLES
  files,          \* files[k]: whether the csv of dataset k exists, and its rows
  untilInclusive, \* the remote's reading of the `until` filter
  failures,       \* non-200 responses given so far
  runs,           \* process invocations so far
  insts,          \* the instances that are ever started
  pc,             \* pc[p]: where instance p stands
  args,           \* args[p]: mode, repos, months (--months or --extend_months)
  idx,            \* idx[p]: position of the `for repo in repos` loop
  call,           \* call[p]: locals of the running get_commits / get_prs_between
  result,         \* result[p]: the list the fetcher returned
  frame,          \* frame[p]: locals of process_data, __main__ and the extend functions
  hist            \* hist[p]: what the current invocation of p has done so far

vars == <<files, untilInclusive, failures, runs, insts,
          pc, args, idx, call, result, frame, hist>>

NoArgs == [mode |-> "none", repos |-> <<>>, months |-> 0]
NoCall == [kind |-> "none", repo |-> "none", since |-> 0, until |-> <<>>,
           page |-> 0, items |-> <<>>, pbar |-> FALSE, reqs |-> <<>>, ok |-> TRUE]
NoFrame == [now |-> 0, since_date |-> 0, commits_df |-> <<>>,
            commits_list |-> <<>>, prs_list |-> <<>>,
            existing |-> <<>>, extended |-> <<>>]
NoHist == [log |-> {}, nreq |-> [k \in Kinds |-> 0], wrote |-> <<>>,
           late |-> {}, snap |-> [k \in Kinds |-> [exists |-> FALSE, rows |-> <<>>]],
           calls |-> {}, fetched |-> [k \in Kinds |-> {}], exit |-> "none"]

Running(p) == pc[p] \notin {"idle", "exited"}

Init ==
  /\ files = [k \in Kinds |-> [exists |-> FALSE, rows |-> <<>>]]
  /\ untilInclusive \in BOOLEAN
  /\ failures = 0
  /\ runs = 0
  /\ insts = {1}
  /\ pc = [p \in Inst |-> "idle"]
  /\ args = [p \in Inst |-> NoArgs]
  /\ idx = [p \in Inst |-> 0]
  /\ call = [p \in Inst |-> NoCall]
  /\ result = [p \in Inst |-> <<>>]
  /\ frame = [p \in Inst |-> NoFrame]
  /\ hist = [p \in Inst |-> NoHist]

\* ------------------------------------------------------- action helpers
\* the process of p ends: its memory is gone, the files stay as they are
Exit(p, h, status) ==
  /\ pc' = [pc EXCEPT ![p] = "exited"]
  /\ idx' = [idx EXCEPT ![p] = 0]
  /\ call' = [call EXCEPT ![p] = NoCall]
  /\ result' = [result EXCEPT ![p] = <<>>]
  /\ frame' = [frame EXCEPT ![p] = NoFrame]
  /\ hist' = [hist EXCEPT ![p] = [h EXCEPT !.exit = status]]

\* a fetcher is entered with page = 1, an empty list and pbar = None
Enter(p, h, kind, repo, since_date, until_date) ==
  /\ call' = [call EXCEPT ![p] =
                [kind |-> kind, repo |-> repo, since |-> since_date, until |-> until_date,
                 page |-> 1, items |-> <<>>, pbar |-> FALSE, reqs |-> <<>>, ok |-> TRUE]]
  /\ hist' = [hist EXCEPT ![p] = [h EXCEPT !.calls = @ \cup
                {[kind |-> kind, repo |-> repo, since |-> since_date, until |-> until_date]}]]
  /\ result' = [result EXCEPT ![p] = <<>>]
  /\ pc' = [pc EXCEPT ![p] = IF kind = "commits" THEN "get_commits" ELSE "get_prs_between"]

\* requests.get is issued for the current page of the running fetcher
Requested(h, kind) ==
  [h EXCEPT !.nreq[kind] = @ + 1,
            !.late = IF h.wrote = <<>> THEN @ ELSE @ \cup {kind}]

\* the fetcher leaves its loop: pbar.close() and return of the list, or the
\* AttributeError of None.close() when no first page was ever received
Leave(p, c, h, items, retpc) ==
  IF c.pbar
  THEN /\ pc' = [pc EXCEPT ![p] = retpc]
       /\ call' = [call EXCEPT ![p] = c]
       /\ result' = [result EXCEPT ![p] = items]
       /\ hist' = [hist EXCEPT ![p] = h]
       /\ UNCHANGED <<idx, frame>>
  ELSE Exit(p, h, "AttributeError")

\* ---------------------------------------------------------------- actions
\* the script is started: argparse, the repository list, the mode branch
Launch(p, m, rs, n) ==
  /\ p \in insts
  /\ ~Running(p)
  /\ args' = [args EXCEPT ![p] = [mode |-> m, repos |-> rs, months |-> n]]
  /\ idx' = [idx EXCEPT ![p] = 1]
  /\ call' = [call EXCEPT ![p] = NoCall]
  /\ result' = [result EXCEPT ![p] = <<>>]
  /\ frame' = [frame EXCEPT ![p] = NoFrame]
  /\ hist' = [hist EXCEPT ![p] = [NoHist EXCEPT !.snap = files]]
  /\ pc' = [pc EXCEPT ![p] = IF m = "refetch" THEN "refetch_loop" ELSE "extend_all_commits_data"]
  /\ UNCHANGED <<files, untilInclusive, failures, insts>>

\* one of the MaxRuns invocations of a behaviour
Start(p, m, rs, n) ==
  /\ runs < MaxRuns
  /\ runs' = runs + 1
  /\ Launch(p, m, rs, n)

\* the process is terminated from outside
Interrupt(p) ==
  /\ Running(p)
  /\ Exit(p, [NoHist EXCEPT !.snap = hist[p].snap], "killed")
  /\ UNCHANGED <<files, untilInclusive, failures, runs, insts, args>>

\* one pass of the while loop of get_commits: request, status check, first-page
\* progress bar, empty-page check, extend
get_commits(p) ==
  /\ pc[p] = "get_commits"
  /\ LET c == call[p]
         h == Requested(hist[p], "commits")
         sent == [c EXCEPT !.reqs = Append(@, c.page)]
         ret == IF args[p].mode = "refetch" THEN "process_data_commits"
                ELSE "extend_commits_collect"
         data == PageOf(ServeCommits(c.repo, c.since, c.until, untilInclusive), c.page)
     IN \/ /\ failures < MaxFailures
           /\ failures' = failures + 1
           /\ Leave(p, [sent EXCEPT !.ok = FALSE],
                    [h EXCEPT !.log = @ \cup {<<"error fetching", "commits", c.repo>>}], c.items, ret)
        \/ /\ UNCHANGED failures
           /\ IF data = <<>>
              THEN Leave(p, [sent EXCEPT !.pbar = TRUE], h, c.items, ret)
              ELSE /\ call' = [call EXCEPT ![p] =
                                 [sent EXCEPT !.pbar = TRUE, !.items = extend(@, data),
                                              !.page = next_page(@)]]
                   /\ hist' = [hist EXCEPT ![p] = h]
                   /\ pc' = [pc EXCEPT ![p] = after_page("commits")]
                   /\ UNCHANGED <<idx, result, frame>>
  /\ UNCHANGED <<files, untilInclusive, runs, insts, args>>

\* time.sleep(1) at the end of a pass of get_commits
get_commits_sleep(p) ==
  /\ pc[p] = "get_commits_sleep"
  /\ pc' = [pc EXCEPT ![p] = "get_commits"]
  /\ UNCHANGED <<files, untilInclusive, failures, runs, insts,
                 args, idx, call, result, frame, hist>>

\* one pass of the while loop of get_prs_between
get_prs_between(p) ==
  /\ pc[p] = "get_prs_between"
  /\ LET c == call[p]
         h == Requested(hist[p], "prs")
         sent == [c EXCEPT !.reqs = Append(@, c.page)]
         ret == IF args[p].mode = "refetch" THEN "process_data_prs"
                ELSE "extend_prs_collect"
         data == PageOf(RemotePRs[c.repo], c.page)
         scan == ScanPage(data, c.since, c.until[1], c.items)
     IN \/ /\ failures < MaxFailures
           /\ failures' = failures + 1
           /\ Leave(p, [sent EXCEPT !.ok = FALSE],
                    [h EXCEPT !.log = @ \cup {<<"error fetching", "prs", c.repo>>}], c.items, ret)
        \/ /\ UNCHANGED failures
           /\ IF data = <<>> \/ scan.stop
              THEN Leave(p, [sent EXCEPT !.pbar = TRUE, !.items = scan.prs], h, scan.prs, ret)
              ELSE /\ call' = [call EXCEPT ![p] =
                                 [sent EXCEPT !.pbar = TRUE, !.items = scan.prs,
                                              !.page = next_page(@)]]
                   /\ hist' = [hist EXCEPT ![p] = h]
                   /\ pc' = [pc EXCEPT ![p] = after_page("prs")]
                   /\ UNCHANGED <<idx, result, frame>>
  /\ UNCHANGED <<files, untilInclusive, runs, insts, args>>

\* time.sleep(1) at the end of a pass of get_prs_between
get_prs_between_sleep(p) ==
  /\ pc[p] = "get_prs_between_sleep"
  /\ pc' = [pc EXCEPT ![p] = "get_prs_between"]
  /\ UNCHANGED <<files, untilInclusive, failures, runs, insts,
                 args, idx, call, result, frame, hist>>

\* `for repo in repos` of the refetch branch, and process_data up to its call
\* of get_commits
refetch_loop(p) ==
  /\ pc[p] = "refetch_loop"
  /\ IF idx[p] > Len(args[p].repos)
     THEN /\ pc' = [pc EXCEPT ![p] = "refetch_save_commits"]
          /\ UNCHANGED <<call, result, frame, hist>>
     ELSE LET now == Now
              since_date == WindowStart(now, args[p].months)
          IN /\ frame' = [frame EXCEPT ![p].now = now, ![p].since_date = since_date]
             /\ Enter(p, hist[p], "commits", args[p].repos[idx[p]], since_date, <<>>)
  /\ UNCHANGED <<files, untilInclusive, failures, runs, insts, args, idx>>

\* process_data between get_commits and get_prs_between: commit_data, commits_df
process_data_commits(p) ==
  /\ pc[p] = "process_data_commits"
  /\ LET repo == args[p].repos[idx[p]]
         commits_df == CommitFrame(result[p], repo)
     IN /\ frame' = [frame EXCEPT ![p].commits_df = commits_df]
        /\ Enter(p, [hist[p] EXCEPT !.fetched["commits"] = @ \cup Range(commits_df)],
                 "prs", repo, frame[p].since_date, <<frame[p].now>>)
  /\ UNCHANGED <<files, untilInclusive, failures, runs, insts, args, idx>>

\* process_data after get_prs_between: pr_data, prs_df, and the two appends of
\* the refetch loop
process_data_prs(p) ==
  /\ pc[p] = "process_data_prs"
  /\ LET repo == args[p].repos[idx[p]]
         prs_df == PrFrame(result[p], repo)
     IN /\ frame' = [frame EXCEPT ![p].commits_list = Append(@, frame[p].commits_df),
                                  ![p].prs_list = Append(@, prs_df),
                                  ![p].commits_df = <<>>]
        /\ hist' = [hist EXCEPT ![p].fetched["prs"] = @ \cup Range(prs_df)]
  /\ idx' = [idx EXCEPT ![p] = @ + 1]
  /\ call' = [call EXCEPT ![p] = NoCall]
  /\ result' = [result EXCEPT ![p] = <<>>]
  /\ pc' = [pc EXCEPT ![p] = "refetch_loop"]
  /\ UNCHANGED <<files, untilInclusive, failures, runs, insts, args>>

\* `if commits_list:` of the refetch branch: concat, drop_duplicates,
\* sort_values (KeyError 'date' on a frame without columns), to_csv
refetch_save_commits(p) ==
  /\ pc[p] = "refetch_save_commits"
  /\ IF frame[p].commits_list = <<>>
     THEN /\ pc' = [pc EXCEPT ![p] = "refetch_save_prs"]
          /\ UNCHANGED <<files, idx, call, result, frame, hist>>
     ELSE IF Flatten(frame[p].commits_list) = <<>>
          THEN /\ Exit(p, hist[p], "KeyError")
               /\ UNCHANGED files
          ELSE /\ files' = [files EXCEPT !["commits"] =
                              [exists |-> TRUE,
                               rows |-> to_csv(refetch_combine(frame[p].commits_list,
                                                               "sha", "date"), "commits")]]
               /\ hist' = [hist EXCEPT ![p].wrote = Append(@, "commits")]
               /\ pc' = [pc EXCEPT ![p] = "refetch_save_prs"]
               /\ UNCHANGED <<idx, call, result, frame>>
  /\ UNCHANGED <<untilInclusive, failures, runs, insts, args>>

\* `if prs_list:` of the refetch branch, and the end of the script
refetch_save_prs(p) ==
  /\ pc[p] = "refetch_save_prs"
  /\ IF frame[p].prs_list = <<>>
     THEN /\ Exit(p, hist[p], "ok")
          /\ UNCHANGED files
     ELSE IF Flatten(frame[p].prs_list) = <<>>
          THEN /\ Exit(p, hist[p], "KeyError")
               /\ UNCHANGED files
          ELSE /\ files' = [files EXCEPT !["prs"] =
                              [exists |-> TRUE,
                               rows |-> to_csv(refetch_combine(frame[p].prs_list,
                                                               "pr_number", "created_at"), "prs")]]
               /\ Exit(p, [hist[p] EXCEPT !.wrote = Append(@, "prs")], "ok")
  /\ UNCHANGED <<untilInclusive, failures, runs, insts, args>>

\* what follows the extension of one dataset: the PR extension, or the end
AfterExtend(p, h, kind) ==
  IF kind = "commits"
  THEN /\ pc' = [pc EXCEPT ![p] = "extend_all_prs_data"]
       /\ idx' = [idx EXCEPT ![p] = 1]
       /\ frame' = [frame EXCEPT ![p] = NoFrame]
       /\ call' = [call EXCEPT ![p] = NoCall]
       /\ result' = [result EXCEPT ![p] = <<>>]
       /\ hist' = [hist EXCEPT ![p] = h]
  ELSE Exit(p, h, "ok")

\* ExtendCheck that ends the program when the file is missing
ExtendCheckExit(p, kind) ==
  /\ IF ~os_path_exists(files[kind])
     THEN Exit(p, [hist[p] EXCEPT !.log = @ \cup {<<"not found", kind, "">>}], "ok")
     ELSE /\ frame' = [frame EXCEPT ![p].existing = read_csv(files[kind].rows, kind),
                                    ![p].extended = <<>>]
          /\ idx' = [idx EXCEPT ![p] = 1]
          /\ pc' = [pc EXCEPT ![p] = IF kind = "commits" THEN "extend_commits_loop"
                                     ELSE "extend_prs_loop"]
          /\ UNCHANGED <<call, result, hist>>
  /\ UNCHANGED <<files, untilInclusive, failures, runs, insts, args>>

\* the head of an extend function: the os.path.exists check and read_csv
ExtendCheck(p, kind) ==
  /\ IF ~os_path_exists(files[kind])
     THEN AfterExtend(p, [hist[p] EXCEPT !.log = @ \cup {<<"not found", kind, "">>}], kind)
     ELSE /\ frame' = [frame EXCEPT ![p].existing = read_csv(files[kind].rows, kind),
                                    ![p].extended = <<>>]
          /\ idx' = [idx EXCEPT ![p] = 1]
          /\ pc' = [pc EXCEPT ![p] = IF kind = "commits" THEN "extend_commits_loop"
                                     ELSE "extend_prs_loop"]
          /\ UNCHANGED <<call, result, hist>>
  /\ UNCHANGED <<files, untilInclusive, failures, runs, insts, args>>

\* `for repo in repos` of an extend function up to its call of the fetcher
ExtendLoop(p, kind) ==
  /\ IF idx[p] > Len(args[p].repos)
     THEN /\ pc' = [pc EXCEPT ![p] = IF kind = "commits" THEN "extend_commits_save"
                                     ELSE "extend_prs_save"]
          /\ UNCHANGED <<idx, call, result, hist>>
     ELSE LET repo == args[p].repos[idx[p]]
          IN IF RepoRows(frame[p].existing, repo) = <<>>
             THEN /\ hist' = [hist EXCEPT ![p].log = @ \cup {<<"skipping", kind, repo>>}]
                  /\ idx' = [idx EXCEPT ![p] = @ + 1]
                  /\ UNCHANGED <<pc, call, result>>
             ELSE LET earliest == earliest_date(frame[p].existing, repo, kind)
                  IN /\ Enter(p, hist[p], kind, repo,
                              WindowStart(earliest, args[p].months), <<earliest>>)
                     /\ UNCHANGED idx
  /\ UNCHANGED <<files, untilInclusive, failures, runs, insts, args, frame>>

\* the rest of the loop body of an extend function: the new frame is built
\* and, unless it is empty, appended to the extended list
ExtendCollect(p, kind) ==
  /\ LET repo == args[p].repos[idx[p]]
         new_df == IF kind = "commits" THEN CommitFrame(result[p], repo)
                   ELSE PrFrame(result[p], repo)
     IN /\ frame' = [frame EXCEPT ![p].extended =
                       IF new_df # <<>> THEN Append(@, new_df) ELSE @]
        /\ hist' = [hist EXCEPT ![p].fetched[kind] = @ \cup Range(new_df)]
  /\ idx' = [idx EXCEPT ![p] = @ + 1]
  /\ call' = [call EXCEPT ![p] = NoCall]
  /\ result' = [result EXCEPT ![p] = <<>>]
  /\ pc' = [pc EXCEPT ![p] = IF kind = "commits" THEN "extend_commits_loop"
                             ELSE "extend_prs_loop"]
  /\ UNCHANGED <<files, untilInclusive, failures, runs, insts, args>>

\* ExtendSave that reads the file again and merges into what it holds now
ExtendSaveFresh(p, kind) ==
  /\ IF frame[p].extended # <<>>
     THEN /\ files' = [files EXCEPT ![csv_path(kind)] =
                         [exists |-> TRUE,
                          rows |-> to_csv(merge(read_csv(files[kind].rows, kind),
                                                Flatten(frame[p].extended),
                                                KeyField(kind), TimeField(kind)), kind)]]
          /\ AfterExtend(p, [hist[p] EXCEPT !.wrote = Append(@, kind)], kind)
     ELSE /\ UNCHANGED files
          /\ AfterExtend(p, hist[p], kind)
  /\ UNCHANGED <<untilInclusive, failures, runs, insts, args>>

\* the tail of an extend function: merge and to_csv when a new frame exists,
\* the existing frame returned untouched otherwise
ExtendSave(p, kind) ==
  /\ IF frame[p].extended # <<>>
     THEN /\ files' = [files EXCEPT ![csv_path(kind)] =
                         [exists |-> TRUE,
                          rows |-> to_csv(merge(frame[p].existing, Flatten(frame[p].extended),
                                                KeyField(kind), TimeField(kind)), kind)]]
          /\ AfterExtend(p, [hist[p] EXCEPT !.wrote = Append(@, kind)], kind)
     ELSE /\ UNCHANGED files
          /\ AfterExtend(p, hist[p], kind)
  /\ UNCHANGED <<untilInclusive, failures, runs, insts, args>>

extend_all_commits_data(p) == pc[p] = "extend_all_commits_data" /\ ExtendCheck(p, "commits")
extend_commits_loop(p) == pc[p] = "extend_commits_loop" /\ ExtendLoop(p, "commits")
extend_commits_collect(p) == pc[p] = "extend_commits_collect" /\ ExtendCollect(p, "commits")
extend_commits_save(p) == pc[p] = "extend_commits_save" /\ ExtendSave(p, "commits")
extend_all_prs_data(p) == pc[p] = "extend_all_prs_data" /\ ExtendCheck(p, "prs")
extend_prs_loop(p) == pc[p] = "extend_prs_loop" /\ ExtendLoop(p, "prs")
extend_prs_collect(p) == pc[p] = "extend_prs_collect" /\ ExtendCollect(p, "prs")
extend_prs_save(p) == pc[p] = "extend_prs_save" /\ ExtendSave(p, "prs")

Next ==
  \/ \E p \in Inst, m \in {"refetch", "extend"}, rs \in RepoLists, n \in 1..MaxMonths :
       Start(p, m, rs, n)
  \/ \E p \in Inst : Interrupt(p)
  \/ \E p \in Inst : get_commits(p)
  \/ \E p \in Inst : get_commits_sleep(p)
  \/ \E p \in Inst : get_prs_between(p)
  \/ \E p \in Inst : get_prs_between_sleep(p)
  \/ \E p \in Inst : refetch_loop(p)
  \/ \E p \in Inst : process_data_commits(p)
  \/ \E p \in Inst : process_data_prs(p)
  \/ \E p \in Inst : refetch_save_commits(p)
  \/ \E p \in Inst : refetch_save_prs(p)
  \/ \E p \in Inst : extend_all_commits_data(p)
  \/ \E p \in Inst : extend_commits_loop(p)
  \/ \E p \in Inst : extend_commits_collect(p)
  \/ \E p \in Inst : extend_commits_save(p)
  \/ \E p \in Inst : extend_all_prs_data(p)
  \/ \E p \in Inst : extend_prs_loop(p)
  \/ \E p \in Inst : extend_prs_collect(p)
  \/ \E p \in Inst : extend_prs_save(p)

Spec == Init /\ [][Next]_vars

\* ------------------------------------------------- vocabulary of the claims
StoredRows(k) == Range(files[k].rows)
KeysOf(rows, k) == {KeyOf(r, KeyField(k)) : r \in rows}
\* a fetched row as it stands in a csv
AsStored(rows, k) == {to_csv(<<r>>, k)[1] : r \in rows}
Ended(p) == pc[p] = "exited" /\ hist[p].exit # "killed"
InFetcher(p) == pc[p] \in {"get_commits", "get_commits_sleep",
                           "get_prs_between", "get_prs_between_sleep"}
Returned(p) == pc[p] \in {"process_data_prs", "extend_prs_collect"}
\* the pull requests of the remote whose created_at lies in [start, end)
InWindow(repo, start, end) ==
  SelectSeq(RemotePRs[repo], LAMBDA pr : start <= pr.created_at /\ pr.created_at < end)
\* page j of the remote's pull requests holds an item older than start
HasOlder(repo, j, start) ==
  \E pr \in Range(PageOf(RemotePRs[repo], j)) : pr.created_at < start

C2_NaturalKeyUnique ==
  \A k \in Kinds :
    \A i, j \in 1..Len(files[k].rows) :
      KeyOf(files[k].rows[i], KeyField(k)) = KeyOf(files[k].rows[j], KeyField(k)) => i = j

\* a refetch run has written the commit table after fetching one sha twice,
\* a sha that was stored before the run
C2_Witness ==
  \E p \in Inst :
    /\ args[p].mode = "refetch" /\ "commits" \in Range(hist[p].wrote)
    /\ \E r1, r2 \in hist[p].fetched["commits"] :
         /\ r1 # r2 /\ r1.sha = r2.sha
         /\ r1.sha \in KeysOf(Range(hist[p].snap["commits"].rows), "commits")

\* ------------------------------------------------------------------ C3
\* C3: when get_prs_between has returned and every request of the call
\* succeeded, the list returned is exactly the remote's pull requests with
\* start <= created_at < end.
C3_PrWindowExact ==
  \A p \in Inst :
    (Returned(p) /\ call[p].ok)
      => result[p] = InWindow(call[p].repo, call[p].since, call[p].until[1])

\* a call has returned a non-empty list after walking a page entirely newer
\* than end and stopping on the first item of a later page
C3_Witness ==
  \E p \in Inst :
    /\ Returned(p) /\ call[p].ok /\ result[p] # <<>>
    /\ \A pr \in Range(PageOf(RemotePRs[call[p].repo], 1)) : pr.created_at >= call[p].until[1]
    /\ Len(call[p].reqs) = 3
    /\ PageOf(RemotePRs[call[p].repo], 3)[1].created_at < call[p].since

\* ------------------------------------------------------------------ C4
\* C4: get_prs_between requests pages 1, 2, 3, ... in order, no page is
\* requested after a page that holds an item with created_at < start, and
\* once such a page has been received the call is no longer in its loop.
C4_PrEarlyTermination ==
  \A p \in Inst :
    call[p].kind = "prs"
      => /\ \A i \in 1..Len(call[p].reqs) :
              /\ call[p].reqs[i] = i
              /\ \A j \in 1..(i - 1) : ~HasOlder(call[p].repo, j, call[p].since)
         /\ pc[p] \in {"get_prs_between", "get_prs_between_sleep"}
              => \A j \in 1..Len(call[p].reqs) : ~HasOlder(call[p].repo, j, call[p].since)

\* a call has returned on a page holding an older item while the remote has
\* a further, non-empty page that was never requested
C4_Witness ==
  \E p \in Inst :
    /\ Returned(p) /\ call[p].ok
    /\ HasOlder(call[p].repo, Len(call[p].reqs), call[p].since)
    /\ PageOf(RemotePRs[call[p].repo], Len(call[p].reqs) + 1) # <<>>

\* ------------------------------------------------------------------ C5
\* C5: a run that received a non-success response still runs to its normal
\* end, and a refetch run then has written both datasets.  (Refuted: after a
\* failed first page pbar is None and pbar.close() raises.)
C5_FailureNotFatal ==
  \A p \in Inst :
    (Ended(p) /\ \E e \in hist[p].log : e[1] = "error fetching")
      => /\ hist[p].exit = "ok"
         /\ args[p].mode = "refetch" => Range(hist[p].wrote) = Kinds

\* ------------------------------------------------------------------ C6
\* C6: a refetch run that started without stored files, saw no failed request
\* and fetched no row ends normally with both tables present and empty.
\* (Refuted: sort_values raises KeyError on the column-less frame.)
C6_EmptyRefetchWritesTables ==
  \A p \in Inst :
    ( /\ args[p].mode = "refetch" /\ Ended(p)
      /\ hist[p].log = {}
      /\ \A k \in Kinds : ~hist[p].snap[k].exists /\ hist[p].fetched[k] = {} )
      => /\ hist[p].exit = "ok"
         /\ \A k \in Kinds : files[k].exists /\ files[k].rows = <<>>

\* ------------------------------------------------------------------ C7
\* the os.path.exists check of dataset k lies behind instance p
PastCheck(p, k) ==
  /\ hist[p].exit # "killed"
  /\ IF k = "commits" THEN pc[p] # "extend_all_commits_data"
     ELSE pc[p] = "exited" /\ hist[p].exit = "ok"

\* C7: in an extend run that found no stored file for a dataset, no request
\* is issued for that dataset, its file is neither created nor written, and
\* once the check is passed the missing file has been reported.
C7_MissingBaseline ==
  \A p \in Inst : \A k \in Kinds :
    (args[p].mode = "extend" /\ ~hist[p].snap[k].exists)
      => /\ hist[p].nreq[k] = 0
         /\ ~files[k].exists
         /\ k \notin Range(hist[p].wrote)
         /\ \A c \in hist[p].calls : c.kind # k
         /\ PastCheck(p, k) => <<"not found", k, "">> \in hist[p].log

\* an extend run without any stored file has ended, both files reported
C7_Witness ==
  \E p \in Inst :
    /\ args[p].mode = "extend" /\ pc[p] = "exited" /\ hist[p].exit = "ok"
    /\ \A k \in Kinds : ~hist[p].snap[k].exists /\ <<"not found", k, "">> \in hist[p].log

\* ------------------------------------------------------------------ C8
\* the rows of repository repo among rows
RowsOfRepo(rows, repo) == {r \in Range(rows) : r.repository = repo}
\* the least time among the rows of repo
StoredMin(rows, repo, k) ==
  CHOOSE t \in {TimeOf(r, TimeField(k)) : r \in RowsOfRepo(rows, repo)} :
    \A r \in RowsOfRepo(rows, repo) : t <= TimeOf(r, TimeField(k))
\* the loop over the repositories of dataset k lies behind instance p
LoopDone(p, k) ==
  \/ pc[p] = "exited" /\ hist[p].exit = "ok"
  \/ pc[p] = "extend_prs_save"
  \/ k = "commits" /\ pc[p] \in {"extend_commits_save", "extend_all_prs_data", "extend_prs_loop",
                                 "get_prs_between", "get_prs_between_sleep",
                                 "extend_prs_collect"}

\* C8: every fetch an extend run issues is for a repository R with stored rows
\* and uses the window [T - 30*extend_months, T), T the least stored time of
\* the rows of R in that dataset; and when the loop of a dataset is done each
\* requested repository with stored rows has had its fetch.
C8_ExtendWindow ==
  \A p \in Inst :
    args[p].mode = "extend"
      => /\ \A c \in hist[p].calls :
              /\ RowsOfRepo(hist[p].snap[c.kind].rows, c.repo) # {}
              /\ c.until = <<StoredMin(hist[p].snap[c.kind].rows, c.repo, c.kind)>>
              /\ c.since = c.until[1] - 30 * args[p].months
         /\ \A k \in Kinds :
              (LoopDone(p, k) /\ hist[p].snap[k].exists)
                => \A i \in 1..Len(args[p].repos) :
                     RowsOfRepo(hist[p].snap[k].rows, args[p].repos[i]) # {}
                       => \E c \in hist[p].calls : c.kind = k /\ c.repo = args[p].repos[i]

\* an extend run has fetched for a repository whose least stored time is not
\* the least time of the whole table
C8_Witness ==
  \E p \in Inst :
    /\ args[p].mode = "extend"
    /\ \E c \in hist[p].calls :
         \E r \in Range(hist[p].snap[c.kind].rows) :
           TimeOf(r, TimeField(c.kind)) < c.until[1]

\* ------------------------------------------------------------------ C9
\* the datasets and batches merge is checked over
MergeCommitRows ==
  [sha : {"s1", "s2"}, date : {1, 2}, author : {"ann"}, repository : {"a", "b"}]
MergePrRows ==
  [pr_number : {1, 2}, created_at : {1, 2}, merged_at : {None}, closed_at : {3},
   author : {"ann"}, repository : {"a", "b"}]
MergeRows(k) == IF k = "commits" THEN MergeCommitRows ELSE MergePrRows
SeqsUpTo(S, n) == UNION {[1..m -> S] : m \in 0..n}
UniqueKeys(rows, k) ==
  \A i, j \in 1..Len(rows) :
    KeyOf(rows[i], KeyField(k)) = KeyOf(rows[j], KeyField(k)) => i = j
SavePc(k) == IF k = "commits" THEN "extend_commits_save" ELSE "extend_prs_save"

\* an extend function stands before its merge with a stored dataset E of
\* unique keys read from the csv and one non-empty incoming batch I
InitMerge ==
  \E k \in Kinds :
    \E E \in {e \in SeqsUpTo(MergeRows(k), MergeLen) : UniqueKeys(e, k)} :
      \E I \in SeqsUpTo(MergeRows(k), MergeLen) \ {<<>>} :
        /\ files = [kk \in Kinds |->
                      IF kk = k THEN [exists |-> TRUE, rows |-> to_csv(E, k)]
                      ELSE [exists |-> FALSE, rows |-> <<>>]]
        /\ untilInclusive = FALSE
        /\ failures = 0
        /\ runs = 1
        /\ insts = {1}
        /\ pc = [p \in Inst |-> IF p = 1 THEN SavePc(k) ELSE "idle"]
        /\ args = [p \in Inst |->
                     IF p = 1 THEN [mode |-> "extend", repos |-> <<"a">>, months |-> 1]
                     ELSE NoArgs]
        /\ idx = [p \in Inst |-> IF p = 1 THEN 2 ELSE 0]
        /\ call = [p \in Inst |-> NoCall]
        /\ result = [p \in Inst |-> <<>>]
        /\ frame = [p \in Inst |->
                      IF p = 1 THEN [NoFrame EXCEPT !.existing = read_csv(to_csv(E, k), k),
                                                    !.extended = <<I>>]
                      ELSE NoFrame]
        /\ hist = [p \in Inst |->
                     IF p = 1
                     THEN [NoHist EXCEPT !.snap = [kk \in Kinds |->
                             IF kk = k THEN [exists |-> TRUE, rows |-> to_csv(E, k)]
                             ELSE [exists |-> FALSE, rows |-> <<>>]]]
                     ELSE NoHist]

NextMerge ==
  \/ \E p \in Inst : extend_commits_save(p)
  \/ \E p \in Inst : extend_prs_save(p)

SpecMerge == InitMerge /\ [][NextMerge]_vars

\* two tables hold the same rows, each as often
SameRows(t1, t2) == Range(t1) = Range(t2) /\ Len(t1) = Len(t2)

\* C9: when an extend function has merged the batch I into the stored
\* dataset and saved it, merging I into the saved table once more gives the
\* same rows, and so does merging the saved table with itself.
C9_MergeIdempotent ==
  [][\A p \in Inst : \A k \in Kinds :
       (pc[p] = SavePc(k) /\ pc'[p] # SavePc(k) /\ frame[p].extended # <<>>)
         => LET I == Flatten(frame[p].extended)
                once == read_csv(files'[k].rows, k)
            IN /\ SameRows(to_csv(merge(once, I, KeyField(k), TimeField(k)), k),
                           files'[k].rows)
               /\ SameRows(to_csv(merge(once, once, KeyField(k), TimeField(k)), k),
                           files'[k].rows)]_vars

\* a merge has been saved that added a row to a stored table of one row
C9_Witness ==
  \E p \in Inst : \E k \in Kinds :
    /\ k \in Range(hist[p].wrote)
    /\ Len(hist[p].snap[k].rows) = 1
    /\ Len(files[k].rows) = 2

\* ----------------------------------------------------------------- C10
\* instance p is running and has not left the step that saves dataset k
NotYetSaved(p, k) ==
  /\ Running(p)
  /\ k = "commits"
       => /\ pc[p] \notin {"refetch_save_prs", "extend_all_prs_data", "extend_prs_loop",
                           "extend_prs_collect", "extend_prs_save"}
          /\ ~(args[p].mode = "extend" /\ pc[p] \in {"get_prs_between", "get_prs_between_sleep"})

\* C10 as stated: no request of an invocation is issued after a write of
\* that invocation, and while a fetcher runs both stored datasets are as they
\* were before the run.  (Refuted: the extend branch saves the commits before
\* it fetches the PRs.)
C10_NoWriteBeforeLastRequest ==
  \A p \in Inst :
    /\ hist[p].late = {}
    /\ InFetcher(p) => files = hist[p].snap

\* C10 amended: each stored dataset stays as it was before the run until the
\* run's save step of that dataset, which follows every request for that
\* dataset; in a refetch run every request precedes both writes; in an extend
\* run only PR requests follow a write, the write of the commit file.
C10_WriteOnlyAtOwnSave ==
  \A p \in Inst :
    /\ \A k \in Kinds : NotYetSaved(p, k) => files[k] = hist[p].snap[k]
    /\ hist[p].late \subseteq {"prs"}
    /\ hist[p].late # {} => args[p].mode = "extend" /\ Head(hist[p].wrote) = "commits"

\* an extend run is fetching PRs after it has rewritten the commit file
C10_Witness ==
  \E p \in Inst :
    /\ args[p].mode = "extend" /\ pc[p] = "get_prs_between_sleep"
    /\ hist[p].wrote = <<"commits">>
    /\ files["commits"] # hist[p].snap["commits"]
    /\ files["prs"] = hist[p].snap["prs"]

\* ------------------------------------------------------------------ C11
Ascending(rows, k) ==
  \A i, j \in 1..Len(rows) : i < j => rows[i][TimeField(k)] <= rows[j][TimeField(k)]

\* C11: in every state the stored commit table is in ascending order of date
\* and the stored PR table in ascending order of created_at; the tables change
\* only by the writes of refetch and extend, so this is the order after every
\* write.
C11_SortedAfterWrite ==
  \A k \in Kinds : files[k].exists => Ascending(files[k].rows, k)

\* a refetch run has written rows it fetched newest first, or an extend run
\* has written rows older than the ones it appended them to
C11_Witness ==
  \E p \in Inst : \E k \in Kinds :
    /\ k \in Range(hist[p].wrote)
    /\ Len(files[k].rows) >= 2
    /\ files[k].rows[1][TimeField(k)] < files[k].rows[Len(files[k].rows)][TimeField(k)]
    /\ args[p].mode = "extend"
    /\ \E r \in hist[p].fetched[k] : \E o \in Range(hist[p].snap[k].rows) :
         r[TimeField(k)] < o[TimeField(k)] /\ AsStored({r}, k) \subseteq StoredRows(k)

\* ------------------------------------------------------------------ C12
\* C12: during and after an extend run every row stored before the run is
\* still stored, and it is the only row under its natural key, also when the
\* run fetched a row with that key and other field values.
C12_ExtendFirstWins ==
  \A p \in Inst : \A k \in Kinds :
    args[p].mode = "extend"
      => \A r \in Range(hist[p].snap[k].rows) :
           /\ r \in StoredRows(k)
           /\ \A r2 \in StoredRows(k) :
                r2[KeyField(k)] = r[KeyField(k)] => r2 = r

\* an extend run has written a table after fetching a row whose key was
\* stored before the run with other field values
C12_Witness ==
  \E p \in Inst : \E k \in Kinds :
    /\ args[p].mode = "extend" /\ k \in Range(hist[p].wrote)
    /\ \E f \in AsStored(hist[p].fetched[k], k) :
         \E o \in Range(hist[p].snap[k].rows) :
           f[KeyField(k)] = o[KeyField(k)] /\ f # o

\* ------------------------------------------------------------------ C13
\* the rows a run had in hand when it wrote the PR table, in the order of
\* their concatenation: the stored rows (extend only), then the fetched rows
\* in the order of the repository list
Precedes(p, r1, r2) ==
  LET stored == IF args[p].mode = "extend" THEN Range(hist[p].snap["prs"].rows) ELSE {}
      pos(r) == CHOOSE i \in 1..Len(args[p].repos) : args[p].repos[i] = r.repository
  IN  \/ r1 \in stored /\ r2 \notin stored
      \/ r1 \notin stored /\ r2 \notin stored /\ pos(r1) < pos(r2)

InHand(p) ==
  AsStored(hist[p].fetched["prs"], "prs")
    \cup (IF args[p].mode = "extend" THEN Range(hist[p].snap["prs"].rows) ELSE {})

\* C13: when a run has written the PR table and had in hand two rows of
\* different repositories with one pr_number, the table holds the one that
\* came first in the concatenation and not the other.
C13_PrNumberCollision ==
  \A p \in Inst :
    "prs" \in Range(hist[p].wrote)
      => \A r1, r2 \in InHand(p) :
           ( /\ r1.pr_number = r2.pr_number
             /\ r1.repository # r2.repository
             /\ Precedes(p, r1, r2) )
             => r1 \in StoredRows("prs") /\ r2 \notin StoredRows("prs")

\* a written PR table lacks a fetched pull request because another
\* repository's pull request has its number
C13_Witness ==
  \E p \in Inst :
    /\ "prs" \in Range(hist[p].wrote)
    /\ \E r2 \in AsStored(hist[p].fetched["prs"], "prs") :
         /\ r2 \notin StoredRows("prs")
         /\ \E r1 \in StoredRows("prs") :
              r1.pr_number = r2.pr_number /\ r1.repository # r2.repository

\* ------------------------------------------------------------------ C14
\* the file a refetch of the repository list rs over n months leaves when
\* every request succeeds; no file when no row was fetched
RefetchedFile(rs, n, kind) ==
  LET since_date == Now - DaysPerMonth * n
      frames == [i \in 1..Len(rs) |->
                   IF kind = "commits"
                   THEN CommitFrame(ServeCommits(rs[i], since_date, <<>>, FALSE), rs[i])
                   ELSE PrFrame(ScanPage(RemotePRs[rs[i]], since_date, Now, <<>>).prs, rs[i])]
  IN  IF Flatten(frames) = <<>>
      THEN [exists |-> FALSE, rows |-> <<>>]
      ELSE [exists |-> TRUE,
            rows |-> to_csv(refetch_combine(frames, KeyField(kind), TimeField(kind)), kind)]

\* an extend command about to run on what an earlier refetch stored, either
\* file possibly absent; every request will succeed
InitWalk ==
  /\ \E rs \in RepoLists : \E n \in 1..MaxMonths : \E present \in [Kinds -> BOOLEAN] :
       files = [k \in Kinds |-> IF present[k] THEN RefetchedFile(rs, n, k)
                                ELSE [exists |-> FALSE, rows |-> <<>>]]
  /\ untilInclusive \in BOOLEAN
  /\ failures = MaxFailures
  /\ runs = 0
  /\ insts = {1}
  /\ pc = [p \in Inst |-> IF p = 1 THEN "extend_all_commits_data" ELSE "idle"]
  /\ \E rs \in RepoLists : \E n \in 1..MaxMonths :
       args = [p \in Inst |-> IF p = 1 THEN [mode |-> "extend", repos |-> rs, months |-> n]
                              ELSE NoArgs]
  /\ idx = [p \in Inst |-> IF p = 1 THEN 1 ELSE 0]
  /\ call = [p \in Inst |-> NoCall]
  /\ result = [p \in Inst |-> <<>>]
  /\ frame = [p \in Inst |-> NoFrame]
  /\ hist = [p \in Inst |-> IF p = 1 THEN [NoHist EXCEPT !.snap = files] ELSE NoHist]

\* the same command is run once more
Again(p) ==
  /\ pc[p] = "exited"
  /\ Launch(p, args[p].mode, args[p].repos, args[p].months)
  /\ UNCHANGED runs

NextWalk ==
  \/ \E p \in Inst : Again(p)
  \/ \E p \in Inst : get_commits(p)
  \/ \E p \in Inst : get_commits_sleep(p)
  \/ \E p \in Inst : get_prs_between(p)
  \/ \E p \in Inst : get_prs_between_sleep(p)
  \/ \E p \in Inst : extend_all_commits_data(p)
  \/ \E p \in Inst : extend_commits_loop(p)
  \/ \E p \in Inst : extend_commits_collect(p)
  \/ \E p \in Inst : extend_commits_save(p)
  \/ \E p \in Inst : extend_all_prs_data(p)
  \/ \E p \in Inst : extend_prs_loop(p)
  \/ \E p \in Inst : extend_prs_collect(p)
  \/ \E p \in Inst : extend_prs_save(p)

\* the script runs to its end once started, and the command is repeated
SpecWalk == InitWalk /\ [][NextWalk]_vars /\ WF_vars(NextWalk)

\* the remote records of a repository as (key, time)
RemoteRecs(repo, k) ==
  IF k = "commits"
  THEN {[key |-> c.sha, time |-> c.date] : c \in Range(RemoteCommits[repo])}
  ELSE {[key |-> pr.number, time |-> pr.created_at] : pr \in Range(RemotePRs[repo])}

RemoteTimes(k) == UNION {{c.time : c \in RemoteRecs(r, k)} : r \in Repos}

\* repo is requested, has rows in the stored table k, the earliest at t, and
\* the remote holds an older record of it
EarliestAt(repo, k, t) ==
  /\ \E p \in insts : \E i \in 1..Len(args[p].repos) : args[p].repos[i] = repo
  /\ RowsOfRepo(files[k].rows, repo) # {}
  /\ StoredMin(files[k].rows, repo, k) = t
  /\ \E c \in RemoteRecs(repo, k) : c.time < t

EarlierThan(repo, k, t) ==
  /\ RowsOfRepo(files[k].rows, repo) # {}
  /\ StoredMin(files[k].rows, repo, k) < t

\* C14 as stated: when every request succeeds and extend is run again and
\* again, a requested repository whose earliest stored time is t while the
\* remote holds an older record of it comes to an earliest stored time
\* before t.  (Refuted: a gap in the remote history longer than the window
\* is never crossed.)
C14_WalksBack ==
  \A k \in Kinds : \A repo \in Repos : \A t \in RemoteTimes(k) :
    EarliestAt(repo, k, t) ~> EarlierThan(repo, k, t)

\* the remote records of the i-th requested repository that lie in its
\* window [T - 30*months, T) and whose key was not stored before the run
Cand(p, i, k) ==
  LET repo == args[p].repos[i]
      rows == hist[p].snap[k].rows
  IN  IF RowsOfRepo(rows, repo) = {} THEN {}
      ELSE LET T == StoredMin(rows, repo, k)
           IN {c \in RemoteRecs(repo, k) :
                 /\ T - 30 * args[p].months <= c.time /\ c.time < T
                 /\ \A r \in Range(rows) : r[KeyField(k)] # c.key}

\* ... and whose key no repository listed before the i-th brings as well
Kept(p, i, k) ==
  {c \in Cand(p, i, k) : \A j \in 1..(i - 1) : \A d \in Cand(p, j, k) : d.key # c.key}

\* C14 amended: an extend run in which every request succeeded moves the
\* earliest stored time of a requested repository back exactly when the
\* remote holds, inside the window, a record of it whose key the table does
\* not hold yet; otherwise the earliest stored time stays where it was.
C14_WalksBackInsideWindow ==
  \A p \in Inst : \A k \in Kinds :
    (args[p].mode = "extend" /\ Ended(p) /\ hist[p].snap[k].exists)
      => \A i \in 1..Len(args[p].repos) :
           LET repo == args[p].repos[i]
           IN  RowsOfRepo(hist[p].snap[k].rows, repo) # {}
                 => IF Kept(p, i, k) # {}
                    THEN StoredMin(files[k].rows, repo, k)
                           < StoredMin(hist[p].snap[k].rows, repo, k)
                    ELSE StoredMin(files[k].rows, repo, k)
                           = StoredMin(hist[p].snap[k].rows, repo, k)

\* one run has moved a repository's earliest commit back, and a later run
\* has left it in place although the remote holds an older commit
C14_Witness ==
  \E p \in Inst : \E i \in 1..Len(args[p].repos) :
    LET repo == args[p].repos[i]
        before == hist[p].snap["commits"].rows
    IN  /\ args[p].mode = "extend" /\ Ended(p)
        /\ RowsOfRepo(before, repo) # {}
        /\ Kept(p, i, "commits") = {}
        /\ StoredMin(files["commits"].rows, repo, "commits") = StoredMin(before, repo, "commits")
        /\ \E c \in RemoteRecs(repo, "commits") : c.time < StoredMin(before, repo, "commits")
        /\ \E c \in RemoteRecs(repo, "commits") :
             /\ c.time = StoredMin(before, repo, "commits")
             /\ c.time < Now - DaysPerMonth * MaxMonths

\* ------------------------------------------------------------------ C15
\* the i-th requested repository has no row in the table k the run read
Rowless(p, i, k) ==
  /\ hist[p].snap[k].exists
  /\ RowsOfRepo(hist[p].snap[k].rows, args[p].repos[i]) = {}

HasCall(p, k, repo) == \E c \in hist[p].calls : c.kind = k /\ c.repo = repo

\* C15: in an extend run a requested repository without rows in a dataset
\* gets no request in that dataset; once the loop of the dataset is done the
\* skip is logged and every requested repository with rows has had its
\* fetch, the skipped repository too in the other dataset if it has rows
\* there; and a run ends abnormally only after a failed request.
C15_SkipRowlessRepo ==
  \A p \in Inst :
    (args[p].mode = "extend" /\ hist[p].exit # "killed")
      => /\ \A k \in Kinds : \A i \in 1..Len(args[p].repos) :
              Rowless(p, i, k)
                => /\ ~HasCall(p, k, args[p].repos[i])
                   /\ LoopDone(p, k)
                        => /\ <<"skipping", k, args[p].repos[i]>> \in hist[p].log
                           /\ \A j \in 1..Len(args[p].repos) :
                                (hist[p].snap[k].exists /\ ~Rowless(p, j, k))
                                  => HasCall(p, k, args[p].repos[j])
                   /\ \A k2 \in Kinds \ {k} :
                        (LoopDone(p, k2) /\ hist[p].snap[k2].exists /\ ~Rowless(p, i, k2))
                          => HasCall(p, k2, args[p].repos[i])
         /\ (pc[p] = "exited" /\ hist[p].exit # "ok")
              => \E e \in hist[p].log : e[1] = "error fetching"

\* an extend run has ended normally after skipping, in the commit dataset, a
\* repository that it extended in the PR dataset, and after extending in the
\* commit dataset a repository listed behind the skipped one
C15_Witness ==
  \E p \in Inst : \E i, j \in 1..Len(args[p].repos) :
    /\ args[p].mode = "extend" /\ pc[p] = "exited" /\ hist[p].exit = "ok"
    /\ Rowless(p, i, "commits")
    /\ HasCall(p, "prs", args[p].repos[i])
    /\ i < j /\ HasCall(p, "commits", args[p].repos[j])

\* ------------------------------------------------------------------ C16
Other(k) == IF k = "commits" THEN "prs" ELSE "commits"

\* C16: when an extend run that found the file of one dataset and not the
\* file of the other has ended, the missing file is reported, still missing
\* and was never fetched for, while in the dataset whose file exists every
\* requested repository with rows has had its fetch and every key fetched is
\* stored.
C16_DatasetsIndependent ==
  \A p \in Inst : \A k \in Kinds :
    ( /\ args[p].mode = "extend" /\ Ended(p)
      /\ hist[p].snap[k].exists /\ ~hist[p].snap[Other(k)].exists )
      => /\ hist[p].exit = "ok"
         /\ <<"not found", Other(k), "">> \in hist[p].log
         /\ ~files[Other(k)].exists
         /\ \A c \in hist[p].calls : c.kind = k
         /\ \A i \in 1..Len(args[p].repos) :
              ~Rowless(p, i, k) => HasCall(p, k, args[p].repos[i])
         /\ \A f \in hist[p].fetched[k] :
              \E r \in StoredRows(k) : r[KeyField(k)] = f[KeyField(k)]

\* an extend run that found no commit file has ended after writing new rows
\* to the PR file
C16_Witness ==
  \E p \in Inst :
    /\ args[p].mode = "extend" /\ Ended(p)
    /\ ~hist[p].snap["commits"].exists /\ hist[p].snap["prs"].exists
    /\ hist[p].wrote = <<"prs">>
    /\ \E r \in StoredRows("prs") : r \notin Range(hist[p].snap["prs"].rows)

\* ------------------------------------------------------------------ C17
\* every row instance p has fetched for dataset k so far has a key that was
\* stored before the run
NothingNew(p, k) ==
  \A f \in hist[p].fetched[k] :
    \E o \in Range(hist[p].snap[k].rows) : o[KeyField(k)] = f[KeyField(k)]

\* C17: while an extend run has fetched no row with a key that was not stored
\* before it, the dataset is as it was before the run: the same file when no
\* row was fetched at all, a file of the same rows otherwise.
C17_NoNewRowsNoChange ==
  \A p \in Inst : \A k \in Kinds :
    (args[p].mode = "extend" /\ hist[p].exit # "killed" /\ NothingNew(p, k))
      => /\ files[k].exists = hist[p].snap[k].exists
         /\ SameRows(files[k].rows, hist[p].snap[k].rows)
         /\ hist[p].fetched[k] = {} => files[k] = hist[p].snap[k]

\* an extend run has ended normally after fetching only rows whose keys were
\* stored, and after merging them and writing the table
C17_Witness ==
  \E p \in Inst : \E k \in Kinds :
    /\ args[p].mode = "extend" /\ Ended(p) /\ hist[p].exit = "ok"
    /\ hist[p].fetched[k] # {} /\ NothingNew(p, k)
    /\ k \in Range(hist[p].wrote)

\* ------------------------------------------------------------------ C18
ConcLists == {<<"a">>, <<"b">>}

\* two extend commands started side by side on what an earlier refetch
\* stored; every request will succeed
InitConc ==
  /\ \E rs \in RepoLists : \E n \in 1..MaxMonths :
       /\ files = [k \in Kinds |-> RefetchedFile(rs, n, k)]
       /\ \A k \in Kinds : files[k].exists
  /\ untilInclusive \in BOOLEAN
  /\ failures = MaxFailures
  /\ runs = 0
  /\ insts = Inst
  /\ pc = [p \in Inst |-> "extend_all_commits_data"]
  /\ args \in [Inst -> {[mode |-> "extend", repos |-> rs, months |-> n] :
                          rs \in ConcLists, n \in 1..ConcMonths}]
  /\ idx = [p \in Inst |-> 1]
  /\ call = [p \in Inst |-> NoCall]
  /\ result = [p \in Inst |-> <<>>]
  /\ frame = [p \in Inst |-> NoFrame]
  /\ hist = [p \in Inst |-> [NoHist EXCEPT !.snap = files]]

NextConc ==
  \/ \E p \in Inst : get_commits(p)
  \/ \E p \in Inst : get_commits_sleep(p)
  \/ \E p \in Inst : get_prs_between(p)
  \/ \E p \in Inst : get_prs_between_sleep(p)
  \/ \E p \in Inst : extend_all_commits_data(p)
  \/ \E p \in Inst : extend_commits_loop(p)
  \/ \E p \in Inst : extend_commits_collect(p)
  \/ \E p \in Inst : extend_commits_save(p)
  \/ \E p \in Inst : extend_all_prs_data(p)
  \/ \E p \in Inst : extend_prs_loop(p)
  \/ \E p \in Inst : extend_prs_collect(p)
  \/ \E p \in Inst : extend_prs_save(p)

SpecConc == InitConc /\ [][NextConc]_vars

\* C18: the table an instance writes holds the keys of the frame that
\* instance read and of the rows it fetched, and no other: what another
\* instance wrote after that read is not in it.
C18_LastWriterWins ==
  [][\A p \in Inst : \A k \in Kinds :
       (pc[p] = SavePc(k) /\ pc'[p] # pc[p] /\ frame[p].extended # <<>>)
         => KeysOf(Range(files'[k].rows), k)
              = KeysOf(Range(frame[p].existing), k) \cup KeysOf(hist[p].fetched[k], k)]_vars

\* both instances have read, merged and written the commit table, and a row
\* the first writer added is not in the table
C18_Witness ==
  \E p, q \in Inst :
    /\ p # q
    /\ "commits" \in Range(hist[p].wrote) /\ "commits" \in Range(hist[q].wrote)
    /\ \E f \in hist[p].fetched["commits"] :
         /\ \A o \in Range(hist[p].snap["commits"].rows) : o.sha # f.sha
         /\ \A r \in StoredRows("commits") : r.sha # f.sha

\* ------------------------------------------------------------------ C19
RequestPcs == {"get_commits", "get_prs_between"}
SleepPc(k) == IF k = "commits" THEN "get_commits_sleep" ELSE "get_prs_between_sleep"

\* C19: a step sends at most one request, sends it from the request point of
\* a fetcher and leaves that point; and a fetcher that has sent a request in
\* its call comes back to the request point only out of its sleep.
C19_DelayBetweenRequests ==
  [][\A p \in Inst :
       /\ (\E k \in Kinds : hist'[p].nreq[k] > hist[p].nreq[k])
            => /\ pc[p] \in RequestPcs /\ pc'[p] # pc[p]
               /\ hist'[p].nreq["commits"] + hist'[p].nreq["prs"]
                    = hist[p].nreq["commits"] + hist[p].nreq["prs"] + 1
               /\ \A q \in Inst \ {p} : hist'[q].nreq = hist[q].nreq
       /\ (pc'[p] \in RequestPcs /\ pc'[p] # pc[p] /\ call'[p].reqs # <<>>)
            => /\ pc[p] = SleepPc(call'[p].kind)
               /\ call'[p] = call[p]]_vars

\* a fetcher is about to send the third request of one call
C19_Witness ==
  \E p \in Inst : pc[p] \in RequestPcs /\ Len(call[p].reqs) = 2

\* ------------------------------------------------------------------ C20
CommitsReturned(p) == pc[p] \in {"process_data_commits", "extend_commits_collect"}

\* the commits of the call's repository the remote lists for the call's
\* since / until, newest first
Listing(p) ==
  SelectSeq(RemoteCommits[call[p].repo],
            LAMBDA c : /\ c.date >= call[p].since
                       /\ \/ call[p].until = <<>>
                          \/ c.date < call[p].until[1]
                          \/ untilInclusive /\ c.date = call[p].until[1])

\* items (i-1)*PerPage+1 .. i*PerPage of the listing, as a set of positions
PagePositions(p, i) ==
  {n \in 1..Len(Listing(p)) : (i - 1) * PerPage < n /\ n <= i * PerPage}

\* C20: a call of get_commits requests the pages 1, 2, ... in order; when it
\* has returned and every request succeeded, the last page requested is the
\* first empty one and the list returned is the listing of the pages before
\* it, in page order.
C20_CommitsPagination ==
  \A p \in Inst :
    call[p].kind = "commits"
      => /\ \A i \in 1..Len(call[p].reqs) : call[p].reqs[i] = i
         /\ (CommitsReturned(p) /\ call[p].ok)
              => /\ call[p].reqs # <<>>
                 /\ PagePositions(p, Len(call[p].reqs)) = {}
                 /\ \A i \in 1..(Len(call[p].reqs) - 1) : PagePositions(p, i) # {}
                 /\ result[p] = Listing(p)

\* a call has returned three commits after two non-empty pages and an empty
\* third page
C20_Witness ==
  \E p \in Inst :
    /\ CommitsReturned(p) /\ call[p].ok /\ call[p].kind = "commits"
    /\ call[p].reqs = <<1, 2, 3>>
    /\ Len(result[p]) > PerPage

\* ------------------------------------------------------------------ C21
\* C21: during and after an extend run every repository that had rows in a
\* stored table before the run still has rows in it, and its earliest stored
\* time there is not later than it was before the run.
C21_CheckpointMovesBackward ==
  \A p \in Inst : \A k \in Kinds : \A repo \in Repos :
    (args[p].mode = "extend" /\ RowsOfRepo(hist[p].snap[k].rows, repo) # {})
      => /\ RowsOfRepo(files[k].rows, repo) # {}
         /\ StoredMin(files[k].rows, repo, k) <= StoredMin(hist[p].snap[k].rows, repo, k)

\* an extend run has ended normally after rewriting a table: the earliest
\* stored time of one repository has moved back and that of another
\* repository of the table is where it was
C21_Witness ==
  \E p \in Inst : \E k \in Kinds : \E r1, r2 \in Repos :
    /\ args[p].mode = "extend" /\ pc[p] = "exited" /\ hist[p].exit = "ok"
    /\ k \in Range(hist[p].wrote)
    /\ r1 # r2
    /\ RowsOfRepo(hist[p].snap[k].rows, r1) # {}
    /\ RowsOfRepo(hist[p].snap[k].rows, r2) # {}
    /\ RowsOfRepo(files[k].rows, r1) # {} /\ RowsOfRepo(files[k].rows, r2) # {}
    /\ StoredMin(files[k].rows, r1, k) < StoredMin(hist[p].snap[k].rows, r1, k)
    /\ StoredMin(files[k].rows, r2, k) = StoredMin(hist[p].snap[k].rows, r2, k)

====
